---- MODULE Spec2Model ----
(***************************************************************************)
(* Model of the two scripts of the repository:                             *)
(*   - the self-hosted custom element VapiCustomWidget                     *)
(*     (src/vapi-custom-widget.js): consent gate, render, toggle, send,    *)
(*     streaming response reader;                                          *)
(*   - the attribute-driven loader (src/unnamed/part_000): init,           *)
(*     validation, vendor script loading, widget creation.                 *)
(* Text is modelled with TLA+ strings; concatenation is \o on strings.     *)
(* The handlers run on a single event loop: one action is one event-loop   *)
(* task together with the microtasks it triggers.                          *)
(***************************************************************************)
EXTENDS Naturals, Sequences, FiniteSets, TLC

\* ------------------------------------------------------------------ bounds
\* accepted sends (HTTP requests) per widget instance
MaxTurns == 2
\* open/close events per widget instance
MaxToggles == 2
\* lines delivered by the response streams of one widget instance
MaxStreamLines == 3
\* lines in one network chunk
MaxLinesPerChunk == 2
\* attribute mutations after construction
MaxAttrChanges == 1
\* widget elements constructed one after the other over the same local storage
MaxInjectCalls == 4
MaxInstances == 2

\* ----------------------------------------------------------- value spaces
\* JavaScript null / an attribute that is not present
Null == "<null>"
Absent == "<absent>"

VARIABLES
  \* ---- VapiCustomWidget
  attributes,      \* attribute name -> value or Absent
  localStorage,    \* [throws: BOOLEAN, value: Null or string] under the configured key
  connected,       \* the element is in the document
  isOpen, messages, isLoading, previousChatId, consentGiven,
  dom,             \* what the shadow root holds
  calls,           \* sendMessage coroutines suspended at an await
  requests,        \* history: the bodies handed to fetch, in order
  events,          \* history: the message and error events dispatched, in order
  toggleEvents,    \* history: the chat-open and chat-close events dispatched, in order
  lastOp,          \* history: the last handler that ran, with its input
  gaveConsent,     \* history: giveConsent has run on this instance
  linesRead,       \* history: number of stream lines delivered so far
  attrChanges,     \* history: number of attribute mutations so far
  page,            \* history: [instance: number of elements constructed so far,
                   \*   writes: the values written under the storage key, by instance]
  \* ---- loader
  loader           \* state of the attribute-driven loader script

wvars == <<attributes, localStorage, connected, isOpen, messages, isLoading,
           previousChatId, consentGiven, dom, calls, requests, events,
           toggleEvents, lastOp, gaveConsent, linesRead, attrChanges, page>>
vars == <<attributes, localStorage, connected, isOpen, messages, isLoading,
          previousChatId, consentGiven, dom, calls, requests, events,
          toggleEvents, lastOp, gaveConsent, linesRead, attrChanges, page, loader>>

\* ------------------------------------------------------------ attributes
\* getAttr(name, defaultValue = null): getAttribute(name) || defaultValue
getAttr(attrs, name) ==
  IF attrs[name] = Absent \/ attrs[name] = "" THEN Null ELSE attrs[name]

\* getBoolAttr(name): hasAttribute(name) && getAttribute(name) !== 'false'
getBoolAttr(attrs, name) ==
  attrs[name] # Absent /\ attrs[name] # "false"

\* getConfig(): the options the modelled handlers read
getConfig(attrs) ==
  [ publicKey      |-> getAttr(attrs, "public-key"),
    assistantId    |-> getAttr(attrs, "assistant-id"),
    requireConsent |-> getBoolAttr(attrs, "require-consent") ]

\* ------------------------------------------------------------------- DOM
\* shadowRoot before the first render: attachShadow only
EmptyDom ==
  [ surface |-> "none", open |-> FALSE, transcript |-> <<>>,
    typing |-> FALSE, inputDisabled |-> FALSE, streaming |-> Null ]

\* mutation: the consent screen is shown whenever consent is not given, required or not
ConsentGate_ignoresRequire(requireConsent, given) == ~given

\* mutation: the chat area is rendered whatever the consent state
ConsentGate_never(requireConsent, given) == FALSE

\* the consent screen replaces the chat area while consent is required and not given
ConsentGate(requireConsent, given) == requireConsent /\ ~given

\* render(): shadowRoot.innerHTML rebuilt from the current state
render(attrs, open, msgs, loading, given) ==
  IF ConsentGate(getConfig(attrs).requireConsent, given)
    THEN [ surface |-> "consent", open |-> open, transcript |-> <<>>,
           typing |-> FALSE, inputDisabled |-> FALSE, streaming |-> Null ]
    ELSE [ surface |-> "chat", open |-> open, transcript |-> msgs,
           typing |-> loading, inputDisabled |-> loading, streaming |-> Null ]

\* mutation: the content is appended to the text of the streaming element
updateStreamingMessage_appends(d, content) ==
  IF d.surface # "chat" THEN d
  ELSE [d EXCEPT !.typing = FALSE,
                 !.streaming = IF @ = Null THEN content ELSE @ \o content]

\* updateStreamingMessage(content): direct update of the rendered transcript
updateStreamingMessage(d, content) ==
  IF d.surface # "chat" THEN d
  ELSE [d EXCEPT !.typing = FALSE, !.streaming = content]

\* ------------------------------------------------------- response stream
\* Lines a response body is made of. A chunk is the list chunk.split('\n')
\* gives; every line of the catalogue is a whole line of the stream.
L_Hel == "data: {\"delta\":\"Hel\"}"
L_lo == "data: {\"delta\":\"lo\"}"
L_id1 == "data: {\"id\":\"c1\"}"
L_id2 == "data: {\"id\":\"c2\",\"delta\":\"!\"}"
L_bad == "data: {\"delta\":\"x\""
L_null == "data: null"
L_event == "event: message"
L_blank == "  "

Lines == {L_Hel, L_lo, L_id1, L_id2, L_bad, L_null, L_event, L_blank}

\* The two pieces chunk.split('\n') gives for a line when a chunk boundary of
\* the network falls inside it: the head ends one chunk, the tail starts the next
L_lo_head == "data: {\"del"
L_lo_tail == "ta\":\"lo\"}"
L_id1_head == "data: {\"id\":\"c"
L_id1_tail == "1\"}"

isHead(line) == line \in {L_lo_head, L_id1_head}
isTail(line) == line \in {L_lo_tail, L_id1_tail}
tailOf(head) == IF head = L_lo_head THEN L_lo_tail ELSE L_id1_tail

\* line.trim() is the empty string
trimIsEmpty(line) == line \in {"", " ", "  "}

\* line.startsWith('data: ')
startsWithData(line) ==
  line \in {L_Hel, L_lo, L_id1, L_id2, L_bad, L_null, L_lo_head, L_id1_head}

\* JSON.parse(line.slice(6)): threw is a SyntaxError; otherwise the value
\* (object says whether property access on it is defined, id and delta are the
\* properties read, Null when the property is missing)
JSONparse(line) ==
  CASE line = L_Hel  -> [threw |-> FALSE, object |-> TRUE,  id |-> Null, delta |-> "Hel"]
    [] line = L_lo   -> [threw |-> FALSE, object |-> TRUE,  id |-> Null, delta |-> "lo"]
    [] line = L_id1  -> [threw |-> FALSE, object |-> TRUE,  id |-> "c1", delta |-> Null]
    [] line = L_id2  -> [threw |-> FALSE, object |-> TRUE,  id |-> "c2", delta |-> "!"]
    [] line = L_null -> [threw |-> FALSE, object |-> FALSE, id |-> Null, delta |-> Null]
    [] OTHER         -> [threw |-> TRUE,  object |-> FALSE, id |-> Null, delta |-> Null]

\* JavaScript truthiness of a string-or-null property
truthy(v) == v # Null /\ v # ""

\* mutation: the delta is put in front of the buffer
processLine_prepend(acc, line) ==
  IF acc.threw \/ ~startsWithData(line) THEN acc
  ELSE LET data == JSONparse(line) IN
    IF data.threw \/ ~data.object THEN acc
    ELSE [ fullContent |-> IF truthy(data.delta)
                             THEN data.delta \o acc.fullContent ELSE acc.fullContent,
           chatId |-> IF truthy(data.id) /\ acc.chatId = Null
                        THEN data.id ELSE acc.chatId,
           dom |-> acc.dom, threw |-> FALSE ]

\* mutation: no try/catch around JSON.parse, the SyntaxError leaves the loop
processLine_noCatch(acc, line) ==
  IF acc.threw \/ ~startsWithData(line) THEN acc
  ELSE LET data == JSONparse(line) IN
    IF data.threw \/ ~data.object THEN [acc EXCEPT !.threw = TRUE]
    ELSE [ fullContent |-> IF truthy(data.delta)
                             THEN acc.fullContent \o data.delta ELSE acc.fullContent,
           chatId |-> IF truthy(data.id) /\ acc.chatId = Null
                        THEN data.id ELSE acc.chatId,
           dom |-> acc.dom, threw |-> FALSE ]

\* mutation: every id replaces the captured one (no `&& !chatId`)
processLine_lastId(acc, line) ==
  IF acc.threw \/ ~startsWithData(line) THEN acc
  ELSE LET data == JSONparse(line) IN
    IF data.threw \/ ~data.object THEN acc
    ELSE LET full == IF truthy(data.delta)
                       THEN acc.fullContent \o data.delta ELSE acc.fullContent
         IN [ fullContent |-> full,
              chatId |-> IF truthy(data.id) THEN data.id ELSE acc.chatId,
              dom |-> IF truthy(data.delta)
                        THEN updateStreamingMessage(acc.dom, full) ELSE acc.dom,
              threw |-> FALSE ]

\* the body of `for (const line of lines)`: acc is [fullContent, chatId, dom,
\* threw]; threw says an exception left the loop body (the try block of the
\* source catches every one, so the source never sets it)
processLine(acc, line) ==
  IF acc.threw \/ ~startsWithData(line) THEN acc
  ELSE LET data == JSONparse(line) IN
    IF data.threw \/ ~data.object
      THEN acc   \* catch (e): SyntaxError, or TypeError reading a property of null
      ELSE LET id == IF truthy(data.id) /\ acc.chatId = Null
                       THEN data.id ELSE acc.chatId
               full == IF truthy(data.delta)
                         THEN acc.fullContent \o data.delta ELSE acc.fullContent
           IN [ fullContent |-> full, chatId |-> id,
                dom |-> IF truthy(data.delta)
                          THEN updateStreamingMessage(acc.dom, full) ELSE acc.dom,
                threw |-> FALSE ]

RECURSIVE processLines(_, _)
processLines(acc, lines) ==
  IF lines = <<>> THEN acc
  ELSE processLines(processLine(acc, Head(lines)), Tail(lines))

\* one iteration of the read loop on a chunk: split, filter, for-of
processChunk(acc, chunk) ==
  processLines(acc, SelectSeq(chunk, LAMBDA line : ~trimIsEmpty(line)))

\* chunks of n whole lines of S
Chunks(S, n) == [1..n -> S]

\* lines of the chunks of a stream of valid frames cut anywhere
SplitLines == {L_Hel, L_lo, L_id1, L_lo_head, L_lo_tail, L_id1_head, L_id1_tail}

\* chunks of n lines that may start inside a line and may end inside a line
SplitChunks(n) ==
  {c \in [1..n -> SplitLines] :
     \A k \in 1..n : (isHead(c[k]) => k = n) /\ (isTail(c[k]) => k = 1)}

\* the chunk continues the text received so far: after a head comes its tail,
\* and a tail comes only after its head
continues(received, chunk) ==
  IF received # <<>> /\ isHead(received[Len(received)])
    THEN chunk[1] = tailOf(received[Len(received)])
    ELSE ~isTail(chunk[1])

\* the body ended: no line is left unfinished
bodyComplete(received) ==
  IF received = <<>> THEN TRUE ELSE ~isHead(received[Len(received)])

\* ------------------------------------------------------- widget helpers
Last(q) == q[Len(q)]
RemoveAt(q, i) == SubSeq(q, 1, i - 1) \o SubSeq(q, i + 1, Len(q))

Event(type, role, content) == [type |-> type, role |-> role, content |-> content]
Message(role, content) == [role |-> role, content |-> content]

ErrorText == "Sorry, I encountered an error. Please try again."

\* what the user can have typed into the textarea
Inputs == {"", "  ", "hi", " hi "}

\* input.value.trim()
trim(text) ==
  CASE text \in {"", " ", "  "} -> ""
    [] text = " hi " -> "hi"
    [] OTHER -> text

\* mutation: any stored value counts as a grant
checkConsent_anyValue(config, storage) ==
  IF ~config.requireConsent THEN TRUE
  ELSE IF storage.throws THEN FALSE
  ELSE storage.value # Null

\* checkConsent(): the value consentGiven is left with
checkConsent(config, storage) ==
  IF ~config.requireConsent THEN TRUE
  ELSE IF storage.throws THEN FALSE   \* catch (e)
  ELSE storage.value = "true"

\* mutation: the empty message is not refused
sendMessageReturns_acceptsBlank(surface, message, loading, config) ==
  \/ surface # "chat"
  \/ loading
  \/ config.publicKey = Null
  \/ config.assistantId = Null

\* mutation: a send while a request is in flight is not refused
sendMessageReturns_whileLoading(surface, message, loading, config) ==
  \/ surface # "chat"
  \/ message = ""
  \/ config.publicKey = Null
  \/ config.assistantId = Null

\* mutation: the identifiers are not validated
sendMessageReturns_noValidation(surface, message, loading, config) ==
  \/ surface # "chat"
  \/ message = ""
  \/ loading

\* the early returns of sendMessage: no input element, empty message or a
\* request in flight, missing public-key, missing assistant-id
sendMessageReturns(surface, message, loading, config) ==
  \/ surface # "chat"
  \/ message = ""
  \/ loading
  \/ config.publicKey = Null
  \/ config.assistantId = Null

\* callVapiAPI: the payload handed to fetch (previousChatId Null: key not set)
payload(message, config, prevId) ==
  [ assistantId |-> config.assistantId, input |-> message,
    previousChatId |-> IF truthy(prevId) THEN prevId ELSE Null ]

\* mutation: the returned identifier is dropped
nextChatId_stale(prevId, chatId) == prevId

\* sendMessage after a successful callVapiAPI: the continuation token
nextChatId(prevId, chatId) == IF truthy(chatId) THEN chatId ELSE prevId

\* ------------------------------------------------------- widget actions
\* connectedCallback(): render, setupEventListeners, checkConsent
Connect ==
  /\ ~connected
  /\ connected' = TRUE
  /\ dom' = render(attributes, isOpen, messages, isLoading, consentGiven)
  /\ consentGiven' = checkConsent(getConfig(attributes), localStorage)
  /\ lastOp' = [op |-> "connectedCallback", arg |-> Null]
  /\ UNCHANGED <<attributes, localStorage, isOpen, messages, isLoading,
                 previousChatId, calls, requests, events, toggleEvents,
                 linesRead, attrChanges, gaveConsent, page, loader>>

\* the element is removed from the document (or moved: removed, then connected
\* again); the class has no disconnectedCallback, no field changes
Disconnect ==
  /\ connected
  /\ connected' = FALSE
  /\ lastOp' = [op |-> "disconnect", arg |-> Null]
  /\ UNCHANGED <<attributes, localStorage, isOpen, messages, isLoading,
                 previousChatId, consentGiven, dom, calls, requests, events,
                 toggleEvents, linesRead, attrChanges, gaveConsent, page, loader>>

AttrValues(name) ==
  CASE name = "public-key"      -> {Absent, "pk_live"}
    [] name = "assistant-id"    -> {"", "asst_1"}
    [] name = "require-consent" -> {Absent, "", "false"}

AttrNames == {"public-key", "assistant-id", "require-consent"}

\* the attributes an element can be written with
Markups ==
  {a \in [AttrNames -> {Absent, "", "pk_live", "asst_1", "false"}] :
     \A n \in AttrNames : a[n] \in AttrValues(n)}

\* the subtree after the constructor and the attributeChangedCallback of each
\* attribute of the markup
domOfMarkup(markup) ==
  IF \E n \in AttrNames : markup[n] # Absent
    THEN render(markup, FALSE, <<>>, FALSE, FALSE)
    ELSE EmptyDom

\* constructor of another element over the same local storage (the page is
\* loaded again, or holds a second widget): every field at its initial value
NewInstance(markup) ==
  /\ page.instance < MaxInstances
  /\ page' = [page EXCEPT !.instance = @ + 1]
  /\ attributes' = markup
  /\ connected' = FALSE /\ isOpen' = FALSE /\ messages' = <<>>
  /\ isLoading' = FALSE /\ previousChatId' = Null /\ consentGiven' = FALSE
  /\ dom' = domOfMarkup(markup)
  /\ calls' = <<>> /\ requests' = <<>> /\ events' = <<>> /\ toggleEvents' = <<>>
  /\ gaveConsent' = FALSE /\ linesRead' = 0 /\ attrChanges' = 0
  /\ lastOp' = [op |-> "constructor", arg |-> Null]
  /\ UNCHANGED <<localStorage, loader>>

\* setAttribute / removeAttribute, then attributeChangedCallback(name, old, new)
AttributeChanged(name, value) ==
  /\ attrChanges < MaxAttrChanges
  /\ attrChanges' = attrChanges + 1
  /\ attributes' = [attributes EXCEPT ![name] = value]
  /\ dom' = IF attributes[name] # value
              THEN render(attributes', isOpen, messages, isLoading, consentGiven)
              ELSE dom
  /\ lastOp' = [op |-> "attributeChangedCallback", arg |-> Null]
  /\ UNCHANGED <<localStorage, connected, isOpen, messages, isLoading,
                 previousChatId, consentGiven, calls, requests, events,
                 toggleEvents, linesRead, gaveConsent, page, loader>>

\* mutation: no try/catch around setItem, the exception skips the render
GiveConsent_noCatch ==
  /\ connected
  /\ consentGiven' = TRUE
  /\ gaveConsent' = TRUE
  /\ localStorage' = IF localStorage.throws THEN localStorage
                     ELSE [localStorage EXCEPT !.value = "true"]
  /\ page' = IF localStorage.throws THEN page
             ELSE [page EXCEPT !.writes = @ \cup {[instance |-> page.instance,
                                                  value |-> "true"]}]
  /\ dom' = IF localStorage.throws THEN dom
            ELSE render(attributes, isOpen, messages, isLoading, TRUE)
  /\ lastOp' = [op |-> "giveConsent", arg |-> Null]
  /\ UNCHANGED <<attributes, connected, isOpen, messages, isLoading,
                 previousChatId, calls, requests, events, toggleEvents,
                 linesRead, attrChanges, loader>>

\* mutation: the flag is stored as "1"
GiveConsent_storesOne ==
  /\ connected
  /\ consentGiven' = TRUE
  /\ gaveConsent' = TRUE
  /\ localStorage' = IF localStorage.throws THEN localStorage
                     ELSE [localStorage EXCEPT !.value = "1"]
  /\ page' = IF localStorage.throws THEN page
             ELSE [page EXCEPT !.writes = @ \cup {[instance |-> page.instance,
                                                  value |-> "1"]}]
  /\ dom' = render(attributes, isOpen, messages, isLoading, TRUE)
  /\ lastOp' = [op |-> "giveConsent", arg |-> Null]
  /\ UNCHANGED <<attributes, connected, isOpen, messages, isLoading,
                 previousChatId, calls, requests, events, toggleEvents,
                 linesRead, attrChanges, loader>>

\* giveConsent(): consent button, or the method called by the page
GiveConsent ==
  /\ connected
  /\ consentGiven' = TRUE
  /\ gaveConsent' = TRUE
  /\ localStorage' = IF localStorage.throws THEN localStorage   \* catch (e)
                     ELSE [localStorage EXCEPT !.value = "true"]
  /\ page' = IF localStorage.throws THEN page
             ELSE [page EXCEPT !.writes = @ \cup {[instance |-> page.instance,
                                                  value |-> "true"]}]
  /\ dom' = render(attributes, isOpen, messages, isLoading, TRUE)
  /\ lastOp' = [op |-> "giveConsent", arg |-> Null]
  /\ UNCHANGED <<attributes, connected, isOpen, messages, isLoading,
                 previousChatId, calls, requests, events, toggleEvents,
                 linesRead, attrChanges, loader>>

ToggleArgs == {Null, "true", "false"}

\* this.isOpen = state !== null ? state : !this.isOpen
toggleTarget(state, open) == IF state # Null THEN state = "true" ELSE ~open

\* the event toggleChat dispatches: this.isOpen ? 'chat-open' : 'chat-close'
toggleEvent(open) == IF open THEN "chat-open" ELSE "chat-close"

\* mutation: closing the window drops the loading state
ToggleChat_clearsLoading(state) ==
  /\ connected
  /\ Len(toggleEvents) < MaxToggles
  /\ isOpen' = toggleTarget(state, isOpen)
  /\ isLoading' = (isLoading /\ isOpen')
  /\ dom' = render(attributes, isOpen', messages, isLoading', consentGiven)
  /\ toggleEvents' = Append(toggleEvents, toggleEvent(isOpen'))
  /\ lastOp' = [op |-> "toggleChat", arg |-> Null]
  /\ UNCHANGED <<attributes, localStorage, connected, messages,
                 previousChatId, consentGiven, calls, requests, events,
                 linesRead, attrChanges, gaveConsent, page, loader>>

\* toggleChat(state = null): the toggle button calls it without argument, the
\* close button with false, the page with any of the three
ToggleChat(state) ==
  /\ connected
  /\ Len(toggleEvents) < MaxToggles
  /\ isOpen' = toggleTarget(state, isOpen)
  /\ dom' = render(attributes, isOpen', messages, isLoading, consentGiven)
  /\ toggleEvents' = Append(toggleEvents, toggleEvent(isOpen'))
  /\ lastOp' = [op |-> "toggleChat", arg |-> Null]
  /\ UNCHANGED <<attributes, localStorage, connected, messages, isLoading,
                 previousChatId, consentGiven, calls, requests, events,
                 linesRead, attrChanges, gaveConsent, page, loader>>

\* the coroutine at `await fetch(...)`; issued is history: what the widget had
\* done when fetch was called
NewCall(msgs, loading, dispatched) ==
  [ pc |-> "fetch", fullContent |-> "", chatId |-> Null, received |-> <<>>,
    issued |-> [messages |-> msgs, isLoading |-> loading, events |-> dispatched] ]

\* mutation: the request is issued first, the widget state updated afterwards
SendMessage_fetchFirst(text) ==
  /\ connected
  /\ Len(requests) < MaxTurns
  /\ lastOp' = [op |-> "sendMessage", arg |-> text]
  /\ LET message == trim(text)
         config == getConfig(attributes)
     IN IF sendMessageReturns(dom.surface, message, isLoading, config)
        THEN UNCHANGED <<messages, isLoading, dom, events, requests, calls>>
        ELSE /\ messages' = Append(messages, Message("user", message))
             /\ isLoading' = TRUE
             /\ dom' = render(attributes, isOpen, messages', TRUE, consentGiven)
             /\ events' = Append(events, Event("message", "user", message))
             /\ requests' = Append(requests, payload(message, config, previousChatId))
             /\ calls' = Append(calls, NewCall(messages, isLoading, events))
  /\ UNCHANGED <<attributes, localStorage, connected, isOpen, previousChatId,
                 consentGiven, toggleEvents, linesRead, attrChanges, gaveConsent,
                 page, loader>>

\* mutation: the event carries input.value as typed, not the trimmed message
SendMessage_rawEvent(text) ==
  /\ connected
  /\ Len(requests) < MaxTurns
  /\ lastOp' = [op |-> "sendMessage", arg |-> text]
  /\ LET message == trim(text)
         config == getConfig(attributes)
     IN IF sendMessageReturns(dom.surface, message, isLoading, config)
        THEN UNCHANGED <<messages, isLoading, dom, events, requests, calls>>
        ELSE /\ messages' = Append(messages, Message("user", message))
             /\ isLoading' = TRUE
             /\ dom' = render(attributes, isOpen, messages', TRUE, consentGiven)
             /\ events' = Append(events, Event("message", "user", text))
             /\ requests' = Append(requests, payload(message, config, previousChatId))
             /\ calls' = Append(calls, NewCall(messages', isLoading', events'))
  /\ UNCHANGED <<attributes, localStorage, connected, isOpen, previousChatId,
                 consentGiven, toggleEvents, linesRead, attrChanges, gaveConsent,
                 page, loader>>

\* sendMessage() up to `await fetch(...)` inside callVapiAPI
SendMessage(text) ==
  /\ connected
  /\ Len(requests) < MaxTurns
  /\ lastOp' = [op |-> "sendMessage", arg |-> text]
  /\ LET message == trim(text)
         config == getConfig(attributes)
     IN IF sendMessageReturns(dom.surface, message, isLoading, config)
        THEN UNCHANGED <<messages, isLoading, dom, events, requests, calls>>
        ELSE /\ messages' = Append(messages, Message("user", message))
             /\ isLoading' = TRUE
             /\ dom' = render(attributes, isOpen, messages', TRUE, consentGiven)
             /\ events' = Append(events, Event("message", "user", message))
             /\ requests' = Append(requests, payload(message, config, previousChatId))
             /\ calls' = Append(calls, NewCall(messages', isLoading', events'))
  /\ UNCHANGED <<attributes, localStorage, connected, isOpen, previousChatId,
                 consentGiven, toggleEvents, linesRead, attrChanges, gaveConsent, page, loader>>

\* mutation: the catch block neither appends the error message nor dispatches
Fail_silent(i, error) ==
  /\ isLoading' = FALSE
  /\ dom' = render(attributes, isOpen, messages, FALSE, consentGiven)
  /\ calls' = RemoveAt(calls, i)
  /\ UNCHANGED <<messages, events, previousChatId>>

\* mutation: the error message replaces the user message it answers
Fail_replacesLast(i, error) ==
  /\ messages' = Append(SubSeq(messages, 1, Len(messages) - 1),
                        Message("assistant", ErrorText))
  /\ events' = Append(events, Event("error", Null, error))
  /\ isLoading' = FALSE
  /\ dom' = render(attributes, isOpen, messages', FALSE, consentGiven)
  /\ calls' = RemoveAt(calls, i)
  /\ UNCHANGED previousChatId

\* mutation: isLoading is cleared on the success path only
Fail_keepsLoading(i, error) ==
  /\ messages' = Append(messages, Message("assistant", ErrorText))
  /\ events' = Append(events, Event("error", Null, error))
  /\ dom' = render(attributes, isOpen, messages', isLoading, consentGiven)
  /\ calls' = RemoveAt(calls, i)
  /\ UNCHANGED <<previousChatId, isLoading>>

\* mutation: the identifier captured before the failure becomes the token
Fail_adoptsId(i, error) ==
  /\ messages' = Append(messages, Message("assistant", ErrorText))
  /\ events' = Append(events, Event("error", Null, error))
  /\ isLoading' = FALSE
  /\ dom' = render(attributes, isOpen, messages', FALSE, consentGiven)
  /\ previousChatId' = nextChatId(previousChatId, calls[i].chatId)
  /\ calls' = RemoveAt(calls, i)

\* the catch block of sendMessage, then isLoading = false and render
Fail(i, error) ==
  /\ messages' = Append(messages, Message("assistant", ErrorText))
  /\ events' = Append(events, Event("error", Null, error))
  /\ isLoading' = FALSE
  /\ dom' = render(attributes, isOpen, messages', FALSE, consentGiven)
  /\ calls' = RemoveAt(calls, i)
  /\ UNCHANGED previousChatId

\* fetch resolves: response.ok decides between the reader and the throw
FetchResolve(i, ok) ==
  /\ i \in 1..Len(calls) /\ calls[i].pc = "fetch"
  /\ lastOp' = [op |-> "fetchResolve", arg |-> IF ok THEN "200" ELSE "500"]
  /\ IF ok
       THEN /\ calls' = [calls EXCEPT ![i].pc = "read"]
            /\ UNCHANGED <<messages, events, isLoading, dom, previousChatId>>
       ELSE Fail(i, "API Error: 500")
  /\ UNCHANGED <<attributes, localStorage, connected, isOpen, consentGiven,
                 requests, toggleEvents, linesRead, attrChanges, gaveConsent, page, loader>>

\* fetch rejects (network failure)
FetchReject(i) ==
  /\ i \in 1..Len(calls) /\ calls[i].pc = "fetch"
  /\ lastOp' = [op |-> "fetchReject", arg |-> Null]
  /\ Fail(i, "TypeError: Failed to fetch")
  /\ UNCHANGED <<attributes, localStorage, connected, isOpen, consentGiven,
                 requests, toggleEvents, linesRead, attrChanges, gaveConsent, page, loader>>

\* reader.read() resolves with a chunk: one iteration of the while loop
ReadChunk(i, chunk) ==
  /\ i \in 1..Len(calls) /\ calls[i].pc = "read"
  /\ chunk # <<>>
  /\ linesRead + Len(chunk) <= MaxStreamLines
  /\ linesRead' = linesRead + Len(chunk)
  /\ lastOp' = [op |-> "readChunk", arg |-> chunk]
  /\ LET acc == processChunk([fullContent |-> calls[i].fullContent,
                              chatId |-> calls[i].chatId,
                              dom |-> dom, threw |-> FALSE], chunk)
     IN IF acc.threw
          THEN Fail(i, "SyntaxError")
          ELSE /\ calls' = [calls EXCEPT ![i].fullContent = acc.fullContent,
                                         ![i].chatId = acc.chatId,
                                         ![i].received = @ \o chunk]
               /\ dom' = acc.dom
               /\ UNCHANGED <<messages, events, isLoading, previousChatId>>
  /\ UNCHANGED <<attributes, localStorage, connected, isOpen, consentGiven,
                 requests, toggleEvents, attrChanges, gaveConsent, page, loader>>

\* mutation: an empty result is not appended (`if (response.content)`)
ReadDone_skipsEmpty(i) ==
  /\ i \in 1..Len(calls) /\ calls[i].pc = "read"
  /\ lastOp' = [op |-> "readDone", arg |-> calls[i].received]
  /\ messages' = IF calls[i].fullContent = "" THEN messages
                 ELSE Append(messages, Message("assistant", calls[i].fullContent))
  /\ previousChatId' = nextChatId(previousChatId, calls[i].chatId)
  /\ events' = IF calls[i].fullContent = "" THEN events
               ELSE Append(events, Event("message", "assistant", calls[i].fullContent))
  /\ isLoading' = FALSE
  /\ dom' = render(attributes, isOpen, messages', FALSE, consentGiven)
  /\ calls' = RemoveAt(calls, i)
  /\ UNCHANGED <<attributes, localStorage, connected, isOpen, consentGiven,
                 requests, toggleEvents, linesRead, attrChanges, gaveConsent, page, loader>>

\* reader.read() resolves with done: callVapiAPI returns, sendMessage finalizes
ReadDone(i) ==
  /\ i \in 1..Len(calls) /\ calls[i].pc = "read"
  /\ lastOp' = [op |-> "readDone", arg |-> calls[i].received]
  /\ messages' = Append(messages, Message("assistant", calls[i].fullContent))
  /\ previousChatId' = nextChatId(previousChatId, calls[i].chatId)
  /\ events' = Append(events, Event("message", "assistant", calls[i].fullContent))
  /\ isLoading' = FALSE
  /\ dom' = render(attributes, isOpen, messages', FALSE, consentGiven)
  /\ calls' = RemoveAt(calls, i)
  /\ UNCHANGED <<attributes, localStorage, connected, isOpen, consentGiven,
                 requests, toggleEvents, linesRead, attrChanges, gaveConsent, page, loader>>

\* reader.read() rejects (connection lost while streaming)
ReadError(i) ==
  /\ i \in 1..Len(calls) /\ calls[i].pc = "read"
  /\ lastOp' = [op |-> "readError", arg |-> calls[i].received]
  /\ Fail(i, "TypeError: network error")
  /\ UNCHANGED <<attributes, localStorage, connected, isOpen, consentGiven,
                 requests, toggleEvents, linesRead, attrChanges, gaveConsent, page, loader>>

\* ---------------------------------------------------------------- loader
\* currentScript.getAttribute(name) || ''
dataAttr(value) == IF value = Absent THEN "" ELSE value

LoaderAttrNames ==
  {"data-public-key", "data-assistant-id", "data-logo", "data-footer",
   "data-header-title"}

\* the vapi-widget element as the loader can see it. shadow: "none" (no open
\* shadow root), "empty" (open shadow root without header or container),
\* "rendered" (open shadow root with a header and a container); light: the
\* element has a light-DOM child of class chat-container with a header in it;
\* visible: getBoundingClientRect() has a width and a height
VendorHidden == [shadow |-> "none", light |-> FALSE, visible |-> FALSE]

\* what the loader has put into the vendor element, as numbers of elements:
\* shadowLogo, shadowFooter in the header and the container of the shadow root,
\* lightLogo in the header of the light-DOM container, widgetFooter as a child
\* of the element itself, containerFooter inside the light-DOM container;
\* customized is dataset.customized of the light-DOM container
NothingInjected ==
  [ shadowStyles |-> 0, shadowLogo |-> 0, shadowFooter |-> 0,
    lightLogo |-> 0, widgetFooter |-> 0, containerFooter |-> 0,
    customized |-> FALSE ]

\* the loader before its script runs: no style, script, element, observer or
\* timer. observer, fallback: the first MutationObserver and its 2 s timer;
\* poll, pollTimer: the 100 ms interval and its 10 s timer; deep, deepTimer:
\* the deep MutationObserver and its 30 s timer; observers and timers count
\* the observers that observe and the timers and intervals that are pending
LoaderIdle ==
  [ pc |-> "idle", readyState |-> "complete",
    attrs |-> [n \in LoaderAttrNames |-> Absent],
    styles |-> 0, scripts |-> 0, widgets |-> 0, observers |-> 0, timers |-> 0,
    errors |-> 0,
    vendor |-> VendorHidden, injected |-> NothingInjected,
    observer |-> "none", fallback |-> "none",
    poll |-> "none", pollTimer |-> "none",
    deep |-> "none", deepTimer |-> "none" ]

\* const config = {...}: the options the modelled functions read
config(l) ==
  [ publicKey   |-> dataAttr(l.attrs["data-public-key"]),
    assistantId |-> dataAttr(l.attrs["data-assistant-id"]),
    logo        |-> dataAttr(l.attrs["data-logo"]),
    footer      |-> dataAttr(l.attrs["data-footer"]),
    headerTitle |-> dataAttr(l.attrs["data-header-title"]) ]

\* mutation: only the public key is validated
configMissing_onlyKey(c) == c.publicKey = ""

\* `if (!config.publicKey) ... return; if (!config.assistantId) ... return;`
configMissing(c) == c.publicKey = "" \/ c.assistantId = ""

\* injectCustomElements(): observer and 2 s fallback only with a logo or a footer
hasCustomizations(c) == c.logo # "" \/ c.footer # ""

\* init() up to `await loadVapiScript()`
init(l) ==
  IF configMissing(config(l))
    THEN [l EXCEPT !.pc = "aborted", !.errors = @ + 1]
    ELSE [l EXCEPT !.pc = "loading", !.styles = @ + 1, !.scripts = @ + 1]

\* the observers that observe and the timers and intervals that are pending
counted(l) ==
  [l EXCEPT
     !.observers = (IF l.observer = "observing" THEN 1 ELSE 0)
                     + (IF l.deep = "observing" THEN 1 ELSE 0),
     !.timers = (IF l.pc = "delay" THEN 1 ELSE 0)
                  + (IF l.fallback = "pending" THEN 1 ELSE 0)
                  + (IF l.poll = "running" THEN 1 ELSE 0)
                  + (IF l.pollTimer = "pending" THEN 1 ELSE 0)
                  + (IF l.deepTimer = "pending" THEN 1 ELSE 0)]

\* injectCustomElements(): nothing without logo and footer; else the first
\* observer observes document.body and the 2 s timer is set
injectCustomElements(l) ==
  IF ~hasCustomizations(config(l)) THEN l
  ELSE [l EXCEPT !.observer = "observing", !.fallback = "pending"]

\* mutation: the logo is inserted without looking for one in the header
injectLogoIntoHeader_noLookup(c, logos) ==
  IF c.logo = "" THEN logos ELSE logos + 1

\* injectLogoIntoHeader(header), on the number of .vapi-custom-logo elements
\* inside the header: `if (!config.logo || header.querySelector(...)) return;`
\* then one img is inserted
injectLogoIntoHeader(c, logos) ==
  IF c.logo = "" \/ logos > 0 THEN logos ELSE logos + 1

\* mutation: the footer is appended without looking for one in the container
injectFooter_noLookup(c, footers) ==
  IF c.footer = "" THEN footers ELSE footers + 1

\* injectFooter(container), on the number of .vapi-custom-footer elements
\* inside the container: `if (!config.footer || container.querySelector(...))
\* return;` then one div is appended
injectFooter(c, footers) ==
  IF c.footer = "" \/ footers > 0 THEN footers ELSE footers + 1

\* injectIntoShadowDOM(shadowRoot): a style element each time; with a logo,
\* injectLogoIntoHeader on the first header found; with a footer, injectFooter
\* on the first container found
injectIntoShadowDOM(l) ==
  [l EXCEPT
     !.injected.shadowStyles = @ + 1,
     !.injected.shadowLogo =
        IF config(l).logo # "" /\ l.vendor.shadow = "rendered"
          THEN injectLogoIntoHeader(config(l), @) ELSE @,
     !.injected.shadowFooter =
        IF config(l).footer # "" /\ l.vendor.shadow = "rendered"
          THEN injectFooter(config(l), @) ELSE @]

\* injectIntoLightDOM(widget): with a logo, injectLogoIntoHeader on the header
\* inside the element; with a footer, injectFooter(widget): the lookup covers
\* the whole element, the footer becomes a child of the element itself
injectIntoLightDOM(l) ==
  [l EXCEPT
     !.injected.lightLogo =
        IF config(l).logo # "" /\ l.vendor.light
          THEN injectLogoIntoHeader(config(l), @) ELSE @,
     !.injected.widgetFooter =
        IF config(l).footer # ""
          THEN injectFooter(config(l), @ + l.injected.containerFooter)
                 - l.injected.containerFooter
          ELSE @]

\* the callback of the first observer, run for a mutation under document.body
observerCallback(l) ==
  IF l.observer # "observing" THEN l
  ELSE IF l.vendor.shadow # "none"
    THEN [injectIntoShadowDOM(l) EXCEPT !.observer = "disconnected"]
  ELSE IF l.vendor.light
    THEN [injectIntoLightDOM(l) EXCEPT !.observer = "disconnected"]
  ELSE l

\* the callback of the deep observer: every container inside vapi-widget that
\* is not marked is marked and gets the logo into its header and the footer,
\* each unless the header / the container holds one already
deepObserverCallback(l) ==
  IF l.deep # "observing" \/ ~l.vendor.light \/ l.injected.customized THEN l
  ELSE [l EXCEPT
          !.injected.customized = TRUE,
          !.injected.lightLogo =
             IF config(l).logo # "" /\ @ = 0
               THEN injectLogoIntoHeader(config(l), @) ELSE @,
          !.injected.containerFooter =
             IF config(l).footer # "" /\ @ = 0
               THEN injectFooter(config(l), @) ELSE @]

\* observeWidgetContent(widget): the deep observer observes document.body and
\* the 30 s timer is set
observeWidgetContent(l) ==
  [l EXCEPT !.deep = "observing", !.deepTimer = "pending"]

\* createOverlayCustomizations(widget): with a logo or a header title the
\* 100 ms interval and its 10 s timer are set
createOverlayCustomizations(l) ==
  IF config(l).logo # "" \/ config(l).headerTitle # ""
    THEN [l EXCEPT !.poll = "running", !.pollTimer = "pending"]
    ELSE l

\* tryInjectCustomElements(): the element exists once createVapiWidget ran
tryInjectCustomElements(l) ==
  IF l.widgets = 0 THEN l
  ELSE IF l.vendor.shadow # "none" THEN injectIntoShadowDOM(l)
  ELSE createOverlayCustomizations(l)

\* the last statement of the script: init now, or on DOMContentLoaded
LoaderRun ==
  /\ loader.pc = "script"
  /\ loader' = IF loader.readyState = "loading"
                 THEN [loader EXCEPT !.pc = "waitDOM"]
                 ELSE init(loader)
  /\ UNCHANGED wvars

DOMContentLoaded ==
  /\ loader.pc = "waitDOM"
  /\ loader' = init([loader EXCEPT !.readyState = "interactive"])
  /\ UNCHANGED wvars

\* script.onload: loadVapiScript resolves, init starts the 100 ms wait
VendorScriptLoaded ==
  /\ loader.pc = "loading"
  /\ loader' = [loader EXCEPT !.pc = "delay", !.timers = @ + 1]
  /\ UNCHANGED wvars

\* mutation: the element is created before the script is awaited
VendorScriptError_createsWidget ==
  /\ loader.pc = "loading"
  /\ loader' = [loader EXCEPT !.pc = "failed", !.errors = @ + 1,
                              !.widgets = @ + 1]
  /\ UNCHANGED wvars

\* script.onerror: loadVapiScript rejects, caught by init
VendorScriptError ==
  /\ loader.pc = "loading"
  /\ loader' = [loader EXCEPT !.pc = "failed", !.errors = @ + 1]
  /\ UNCHANGED wvars

\* the 100 ms timer fires: createVapiWidget(), injectCustomElements()
DelayElapsed ==
  /\ loader.pc = "delay"
  /\ loader' = counted(injectCustomElements(
                  [loader EXCEPT !.pc = "initialized", !.widgets = @ + 1]))
  /\ UNCHANGED wvars

\* a mutation under document.body: the callbacks of the observers that observe
mutationCallbacks(l) == deepObserverCallback(observerCallback(l))

\* the vendor element gets an open shadow root, or fills it: not a mutation
\* under document.body, no observer is told
VendorShadow(kind) ==
  /\ loader.pc = "initialized"
  /\ \/ loader.vendor.shadow = "none"
     \/ loader.vendor.shadow = "empty" /\ kind = "rendered"
  /\ loader' = [loader EXCEPT !.vendor.shadow = kind]
  /\ UNCHANGED wvars

\* the vendor element renders its container into its light DOM
VendorRenderLight ==
  /\ loader.pc = "initialized"
  /\ ~loader.vendor.light
  /\ loader' = counted(mutationCallbacks([loader EXCEPT !.vendor.light = TRUE]))
  /\ UNCHANGED wvars

\* the vendor element is laid out with a width and a height
VendorVisible ==
  /\ loader.pc = "initialized"
  /\ ~loader.vendor.visible
  /\ loader' = [loader EXCEPT !.vendor.visible = TRUE]
  /\ UNCHANGED wvars

\* any other mutation under document.body (page content, vendor element)
BodyMutation ==
  /\ loader.pc = "initialized"
  /\ loader' = counted(mutationCallbacks(loader))
  /\ UNCHANGED wvars

\* the 2 s timer of injectCustomElements: observer.disconnect(),
\* tryInjectCustomElements()
FallbackTimeout ==
  /\ loader.fallback = "pending"
  /\ loader' = counted(tryInjectCustomElements(
                  [loader EXCEPT !.fallback = "fired",
                                 !.observer = "disconnected"]))
  /\ UNCHANGED wvars

\* a tick of the 100 ms interval of createOverlayCustomizations
CheckInterval ==
  /\ loader.poll = "running"
  /\ loader' = IF loader.vendor.visible
                 THEN counted(observeWidgetContent([loader EXCEPT !.poll = "cleared"]))
                 ELSE loader
  /\ UNCHANGED wvars

\* the 10 s timer of createOverlayCustomizations: clearInterval
PollTimeout ==
  /\ loader.pollTimer = "pending"
  /\ loader' = counted([loader EXCEPT !.pollTimer = "fired", !.poll = "cleared"])
  /\ UNCHANGED wvars

\* mutation: the 30 s timer fires without disconnecting the deep observer
DeepTimeout_keepsObserving ==
  /\ loader.deepTimer = "pending"
  /\ loader.pollTimer = "fired"
  /\ loader' = counted([loader EXCEPT !.deepTimer = "fired"])
  /\ UNCHANGED wvars

\* the 30 s timer of observeWidgetContent: deepObserver.disconnect(); it is set
\* after the 10 s timer and with a longer delay, so it fires after it
DeepTimeout ==
  /\ loader.deepTimer = "pending"
  /\ loader.pollTimer = "fired"
  /\ loader' = counted([loader EXCEPT !.deepTimer = "fired",
                                      !.deep = "disconnected"])
  /\ UNCHANGED wvars

\* how many times in a row the function `op` has been called on its target
callsInARow(op) == IF lastOp.op = op THEN lastOp.arg ELSE 0

\* one call injectFooter(container) on the light-DOM container
InjectFooterCall ==
  /\ loader.pc = "initialized" /\ loader.vendor.light
  /\ callsInARow("injectFooter") < MaxInjectCalls
  /\ loader' = [loader EXCEPT !.injected.containerFooter =
                                 injectFooter(config(loader), @)]
  /\ lastOp' = [op |-> "injectFooter", arg |-> callsInARow("injectFooter") + 1]
  /\ UNCHANGED <<attributes, localStorage, connected, isOpen, messages,
                 isLoading, previousChatId, consentGiven, dom, calls, requests,
                 events, toggleEvents, gaveConsent, linesRead, attrChanges, page>>

\* one call injectLogoIntoHeader(header) on the header of that container
InjectLogoCall ==
  /\ loader.pc = "initialized" /\ loader.vendor.light
  /\ callsInARow("injectLogoIntoHeader") < MaxInjectCalls
  /\ loader' = [loader EXCEPT !.injected.lightLogo =
                                 injectLogoIntoHeader(config(loader), @)]
  /\ lastOp' = [op |-> "injectLogoIntoHeader",
                arg |-> callsInARow("injectLogoIntoHeader") + 1]
  /\ UNCHANGED <<attributes, localStorage, connected, isOpen, messages,
                 isLoading, previousChatId, consentGiven, dom, calls, requests,
                 events, toggleEvents, gaveConsent, linesRead, attrChanges, page>>

\* ------------------------------------------------------- specifications
WidgetIdle ==
  /\ attributes = [n \in AttrNames |-> Absent]
  /\ localStorage = [throws |-> FALSE, value |-> Null]
  /\ connected = FALSE /\ isOpen = FALSE /\ messages = <<>> /\ isLoading = FALSE
  /\ previousChatId = Null /\ consentGiven = FALSE /\ dom = EmptyDom
  /\ calls = <<>> /\ requests = <<>> /\ events = <<>> /\ toggleEvents = <<>>
  /\ lastOp = [op |-> "constructor", arg |-> Null] /\ gaveConsent = FALSE
  /\ linesRead = 0 /\ attrChanges = 0
  /\ page = [instance |-> 1, writes |-> {}]

\* the element after its constructor and the attributeChangedCallback of each
\* attribute of its markup
Init ==
  /\ attributes \in Markups
  /\ localStorage \in {st \in [throws : BOOLEAN, value : {Null, "true", "false"}] :
                         st.throws => st.value = Null}
  /\ connected = FALSE /\ isOpen = FALSE /\ messages = <<>> /\ isLoading = FALSE
  /\ previousChatId = Null /\ consentGiven = FALSE
  /\ dom = domOfMarkup(attributes)
  /\ calls = <<>> /\ requests = <<>> /\ events = <<>> /\ toggleEvents = <<>>
  /\ lastOp = [op |-> "constructor", arg |-> Null] /\ gaveConsent = FALSE
  /\ linesRead = 0 /\ attrChanges = 0
  /\ page = [instance |-> 1, writes |-> {}]
  /\ loader = LoaderIdle

BasicChunks == {<<L_id2>>}

\* the handlers of a connected widget
Handlers ==
  \/ GiveConsent
  \/ \E st \in ToggleArgs : ToggleChat(st)
  \/ \E text \in Inputs : SendMessage(text)
  \/ \E i \in DOMAIN calls : \E ok \in BOOLEAN : FetchResolve(i, ok)
  \/ \E i \in DOMAIN calls : FetchReject(i)
  \/ \E i \in DOMAIN calls : \E chunk \in BasicChunks : ReadChunk(i, chunk)
  \/ \E i \in DOMAIN calls : ReadDone(i)
  \/ \E i \in DOMAIN calls : ReadError(i)

\* every markup of the element, no attribute mutation afterwards
Next ==
  \/ Connect
  \/ Handlers

Spec == Init /\ [][Next]_vars

\* one markup (both identifiers, consent required), attributes mutated afterwards
AttrInit ==
  /\ Init
  /\ attributes = [n \in AttrNames |->
                     CASE n = "public-key" -> "pk_live"
                       [] n = "assistant-id" -> "asst_1"
                       [] OTHER -> ""]
  /\ localStorage = [throws |-> FALSE, value |-> Null]

\* the page mutates attributes; the user grants consent, uses the toggle button
\* and sends
AttrNext ==
  \/ Connect
  \/ \E n \in AttrNames : \E v \in AttrValues(n) : AttributeChanged(n, v)
  \/ GiveConsent
  \/ ToggleChat(Null)
  \/ \E text \in {"hi"} : SendMessage(text)
  \/ \E i \in DOMAIN calls : \E ok \in BOOLEAN : FetchResolve(i, ok)
  \/ \E i \in DOMAIN calls : \E chunk \in BasicChunks : ReadChunk(i, chunk)
  \/ \E i \in DOMAIN calls : ReadDone(i)

AttrSpec == AttrInit /\ [][AttrNext]_vars

\* one widget with both identifiers and no consent requirement, fed every
\* stream of the line catalogue
StreamInit ==
  /\ Init
  /\ attributes = [n \in AttrNames |->
                     CASE n = "public-key" -> "pk_live"
                       [] n = "assistant-id" -> "asst_1"
                       [] OTHER -> Absent]
  /\ localStorage = [throws |-> FALSE, value |-> Null]

StreamNext ==
  \/ Connect
  \/ \E text \in {"hi"} : SendMessage(text)
  \/ \E i \in DOMAIN calls : \E ok \in BOOLEAN : FetchResolve(i, ok)
  \/ \E i \in DOMAIN calls : \E n \in 1..MaxLinesPerChunk :
       /\ calls[i].pc = "read" /\ linesRead + n <= MaxStreamLines
       /\ \E chunk \in Chunks(Lines, n) : ReadChunk(i, chunk)
  \/ \E i \in DOMAIN calls : ReadDone(i)
  \/ \E i \in DOMAIN calls : ReadError(i)

StreamSpec == StreamInit /\ [][StreamNext]_vars

\* widgets constructed one after the other over the same local storage
ConsentNext ==
  \/ Connect
  \/ GiveConsent
  \/ \E markup \in Markups : NewInstance(markup)

ConsentSpec == Init /\ [][ConsentNext]_vars

\* one element connected, removed and connected again, with the handlers and
\* the attribute mutations of AttrSpec, for every markup and storage
ReconnectNext ==
  \/ Connect
  \/ Disconnect
  \/ \E n \in AttrNames : \E v \in AttrValues(n) : AttributeChanged(n, v)
  \/ GiveConsent
  \/ ToggleChat(Null)
  \/ \E text \in {"hi"} : SendMessage(text)
  \/ \E i \in DOMAIN calls : \E ok \in BOOLEAN : FetchResolve(i, ok)
  \/ \E i \in DOMAIN calls : ReadDone(i)

ReconnectSpec == Init /\ [][ReconnectNext]_vars

\* the widget of StreamSpec, fed streams of valid frames whose chunk boundaries
\* fall anywhere, inside a frame included
SplitNext ==
  \/ Connect
  \/ \E text \in {"hi"} : SendMessage(text)
  \/ \E i \in DOMAIN calls : \E ok \in BOOLEAN : FetchResolve(i, ok)
  \/ \E i \in DOMAIN calls : \E n \in 1..MaxLinesPerChunk :
       /\ calls[i].pc = "read" /\ linesRead + n <= MaxStreamLines
       /\ \E chunk \in SplitChunks(n) :
            continues(calls[i].received, chunk) /\ ReadChunk(i, chunk)
  \/ \E i \in DOMAIN calls : bodyComplete(calls[i].received) /\ ReadDone(i)
  \/ \E i \in DOMAIN calls : ReadError(i)

SplitSpec == StreamInit /\ [][SplitNext]_vars

LoaderAttrValues(name) ==
  CASE name = "data-public-key"   -> {Absent, "", "pk_live"}
    [] name = "data-assistant-id" -> {Absent, "", "asst_1"}
    [] name = "data-logo"         -> {Absent, "logo.png"}
    [] name = "data-footer"       -> {Absent, "Powered by X"}
    [] name = "data-header-title" -> {Absent, "Support"}

\* the script element as the page wrote it, before its last statement runs
LoaderInit ==
  /\ WidgetIdle
  /\ \E rs \in {"loading", "interactive"} :
       \E a \in {a \in [LoaderAttrNames -> {Absent, "", "pk_live", "asst_1", "logo.png",
                                           "Powered by X", "Support"}] :
                    \A n \in LoaderAttrNames : a[n] \in LoaderAttrValues(n)} :
         loader = [LoaderIdle EXCEPT !.pc = "script", !.readyState = rs, !.attrs = a]

LoaderNext ==
  \/ LoaderRun
  \/ DOMContentLoaded
  \/ VendorScriptLoaded
  \/ VendorScriptError
  \/ DelayElapsed
  \/ \E kind \in {"empty", "rendered"} : VendorShadow(kind)
  \/ VendorRenderLight
  \/ VendorVisible
  \/ BodyMutation
  \/ FallbackTimeout
  \/ CheckInterval
  \/ PollTimeout
  \/ DeepTimeout

LoaderSpec == LoaderInit /\ [][LoaderNext]_vars

\* the loader after createVapiWidget with a rendered light-DOM container: the
\* header and the container hold no injected element yet, or the one an
\* earlier call put there
InjectInit ==
  /\ WidgetIdle
  /\ \E a \in {a \in [LoaderAttrNames -> {Absent, "", "pk_live", "asst_1", "logo.png",
                                           "Powered by X", "Support"}] :
                  /\ \A n \in LoaderAttrNames : a[n] \in LoaderAttrValues(n)
                  /\ a["data-public-key"] = "pk_live"
                  /\ a["data-assistant-id"] = "asst_1"} :
       \E logos \in {0, 1}, footers \in {0, 1}, visible \in BOOLEAN :
         /\ logos = 1 => a["data-logo"] # Absent
         /\ footers = 1 => a["data-footer"] # Absent
         /\ loader = [LoaderIdle EXCEPT
                        !.pc = "initialized", !.attrs = a,
                        !.styles = 1, !.scripts = 1, !.widgets = 1,
                        !.vendor.light = TRUE, !.vendor.visible = visible,
                        !.injected.lightLogo = logos,
                        !.injected.containerFooter = footers]

InjectNext ==
  \/ InjectFooterCall
  \/ InjectLogoCall

InjectSpec == InjectInit /\ [][InjectNext]_vars

\* the page stays open: a timer that was set fires
LoaderLiveSpec ==
  /\ LoaderSpec
  /\ WF_vars(FallbackTimeout)
  /\ WF_vars(PollTimeout)
  /\ WF_vars(DeepTimeout)

\* ---------------------------------------------------------------- claims
\* a line that is a `data: ` frame with a JSON payload
wellFormed(line) == startsWithData(line) /\ ~JSONparse(line).threw
\* a `data: ` frame whose payload is not valid JSON
malformed(line) == startsWithData(line) /\ JSONparse(line).threw
\* the delta field of a well-formed frame, empty when it has none
deltaField(line) ==
  IF JSONparse(line).delta = Null THEN "" ELSE JSONparse(line).delta
\* the id field of a well-formed frame, Null when it has none
idField(line) == JSONparse(line).id

RECURSIVE concatDeltas(_)
concatDeltas(lines) ==
  IF lines = <<>> THEN ""
  ELSE (IF wellFormed(Head(lines)) THEN deltaField(Head(lines)) ELSE "")
       \o concatDeltas(Tail(lines))

\* the identifier a stream carries: the id of its first frame with a non-empty one
RECURSIVE streamId(_)
streamId(lines) ==
  IF lines = <<>> THEN Null
  ELSE IF wellFormed(Head(lines)) /\ truthy(idField(Head(lines)))
         THEN idField(Head(lines))
         ELSE streamId(Tail(lines))

validConfig == getConfig(attributes).publicKey # Null
                 /\ getConfig(attributes).assistantId # Null
requireConsentSet == getBoolAttr(attributes, "require-consent")
priorGrant == ~localStorage.throws /\ localStorage.value = "true"

\* C1: whenever a turn is finalized after a stream of whole lines, the assistant
\* message appended by sendMessage has as content the concatenation, in arrival
\* order, of the delta fields of the well-formed `data: ` frames received.
C1_FinalContentIsConcatOfDeltas ==
  lastOp.op = "readDone" =>
    Last(messages) = Message("assistant", concatDeltas(lastOp.arg))

C1_Witness ==
  /\ lastOp.op = "readDone"
  /\ lastOp.arg = <<L_Hel, L_lo, L_id1>>
  /\ Last(messages).content = "Hello"

\* C2: the first request of an instance carries no previousChatId, and the
\* request issued by the send that follows a successful turn whose stream
\* carried an identifier carries previousChatId equal to that identifier.
C2_NextRequestCarriesChatId ==
  [][ /\ (requests = <<>> /\ requests' # <<>>)
          => requests'[1].previousChatId = Null
      /\ (lastOp.op = "readDone" /\ streamId(lastOp.arg) # Null
            /\ Len(requests') = Len(requests) + 1)
          => Last(requests').previousChatId = streamId(lastOp.arg) ]_vars

C2_Witness ==
  /\ Len(requests) = 2
  /\ requests[1].previousChatId = Null
  /\ requests[2].previousChatId = "c1"
  /\ lastOp.op = "sendMessage"

\* the frames of a stream that are not malformed
withoutMalformed(lines) == SelectSeq(lines, LAMBDA line : ~malformed(line))

\* a malformed frame with a well-formed delta frame before and after it
malformedBetweenValid(lines) ==
  \E i, j, k \in 1..Len(lines) :
    /\ i < j /\ j < k
    /\ malformed(lines[j])
    /\ wellFormed(lines[i]) /\ deltaField(lines[i]) # ""
    /\ wellFormed(lines[k]) /\ deltaField(lines[k]) # ""

\* C3: a chunk that holds a malformed frame raises no error and leaves the
\* read loop running; a stream with a malformed frame between valid frames is
\* finalized with the deltas of the valid frames before and after it, and the
\* turn dispatches no error event.
C3_MalformedFrameSkipped ==
  /\ (lastOp.op = "readChunk" /\ \E k \in 1..Len(lastOp.arg) : malformed(lastOp.arg[k]))
       => /\ Len(calls) = 1 /\ calls[1].pc = "read" /\ isLoading
          /\ Last(events) = Event("message", "user", Last(messages).content)
          /\ Last(messages).role = "user"
  /\ (lastOp.op = "readDone" /\ malformedBetweenValid(lastOp.arg))
       => /\ Last(messages).content = concatDeltas(withoutMalformed(lastOp.arg))
          /\ Last(events) = Event("message", "assistant", Last(messages).content)
          /\ events[Len(events) - 1].type = "message"
          /\ events[Len(events) - 1].role = "user"

C3_Witness ==
  /\ lastOp.op = "readDone"
  /\ lastOp.arg = <<L_Hel, L_bad, L_lo>>
  /\ Last(messages).content = "Hello"
  /\ \A e \in 1..Len(events) : events[e].type # "error"

\* C4: while a connected widget requires consent, storage held no grant and
\* giveConsent has not run, no message is appended, no message event is
\* dispatched, no request is issued and the consent screen is what is rendered.
C4_ConsentGateBlocks ==
  (connected /\ requireConsentSet /\ ~priorGrant /\ ~gaveConsent)
    => /\ messages = <<>>
       /\ events = <<>>
       /\ requests = <<>> /\ calls = <<>>
       /\ dom.surface = "consent"

C4_Witness ==
  /\ connected /\ requireConsentSet /\ ~priorGrant /\ ~gaveConsent
  /\ validConfig /\ isOpen
  /\ lastOp.op = "sendMessage" /\ lastOp.arg = "hi"

\* C5: without require-consent the consent screen is never rendered, the chat
\* area is rendered once connected, and a send of a non-empty input with both
\* identifiers set is in flight after the attempt although giveConsent never ran,
\* whatever local storage holds or throws.
C5_NoConsentRequired ==
  ~requireConsentSet
    => /\ dom.surface # "consent"
       /\ connected => dom.surface = "chat"
       /\ (lastOp.op = "sendMessage" /\ trim(lastOp.arg) # "" /\ validConfig)
            => /\ isLoading /\ Len(calls) = 1
               /\ Last(messages) = Message("user", trim(lastOp.arg))
               /\ Last(requests).input = trim(lastOp.arg)

C5_Witness ==
  /\ ~requireConsentSet /\ ~gaveConsent /\ localStorage.throws
  /\ lastOp.op = "sendMessage" /\ lastOp.arg = " hi "
  /\ Len(requests) = 1 /\ isLoading

\* C6: a sendMessage whose input is empty or whitespace changes neither
\* messages, isLoading nor previousChatId, dispatches no event and issues no
\* request.
C6_BlankSendIgnored ==
  [][ (lastOp'.op = "sendMessage" /\ trim(lastOp'.arg) = "")
        => UNCHANGED <<messages, isLoading, previousChatId, events,
                       toggleEvents, requests, calls>> ]_vars

C6_Witness ==
  /\ lastOp.op = "sendMessage" /\ lastOp.arg = "  "
  /\ dom.surface = "chat" /\ validConfig /\ ~isLoading
  /\ messages = <<>> /\ requests = <<>>

\* C7: in the loader, when data-public-key or data-assistant-id is absent or
\* empty, no style is injected, the vendor script is not requested, no
\* vapi-widget element is created and no observer or timer is started.
C7_LoaderAbortsWithoutIds ==
  (loader.attrs["data-public-key"] \in {Absent, ""}
     \/ loader.attrs["data-assistant-id"] \in {Absent, ""})
    => /\ loader.styles = 0 /\ loader.scripts = 0 /\ loader.widgets = 0
       /\ loader.observers = 0 /\ loader.timers = 0
       /\ loader.pc \in {"idle", "script", "waitDOM", "aborted"}

C7_Witness ==
  /\ loader.pc = "aborted"
  /\ loader.attrs["data-public-key"] = "pk_live"
  /\ loader.attrs["data-assistant-id"] = ""
  /\ loader.attrs["data-footer"] # Absent

\* C8: a sendMessage with a non-empty input while public-key or assistant-id is
\* missing issues no request and changes nothing: no message, isLoading still
\* false, no message or error event.
C8_SendWithoutIdsIgnored ==
  [][ (lastOp'.op = "sendMessage" /\ trim(lastOp'.arg) # "" /\ ~validConfig)
        => /\ UNCHANGED <<messages, isLoading, previousChatId, events,
                          requests, calls>>
           /\ ~isLoading' ]_vars

C8_Witness ==
  /\ lastOp.op = "sendMessage" /\ lastOp.arg = "hi"
  /\ connected /\ dom.surface = "chat"
  /\ getConfig(attributes).publicKey # Null
  /\ getConfig(attributes).assistantId = Null

\* C9: the chat-open and chat-close events dispatched by any sequence of toggle
\* operations alternate strictly, starting with chat-open.
C9_ToggleEventsAlternate ==
  \A i \in 1..Len(toggleEvents) :
    toggleEvents[i] = IF i % 2 = 1 THEN "chat-open" ELSE "chat-close"

\* C10: a sendMessage while isLoading changes nothing, and at most one chat
\* request is in flight.
C10_OneRequestInFlight ==
  [][ /\ (lastOp'.op = "sendMessage" /\ isLoading)
          => UNCHANGED <<messages, isLoading, previousChatId, events,
                         requests, calls>>
      /\ Len(calls') <= 1 ]_vars

C10_Witness ==
  /\ lastOp.op = "sendMessage" /\ trim(lastOp.arg) # ""
  /\ isLoading /\ Len(calls) = 1 /\ calls[1].pc = "read"
  /\ calls[1].fullContent # ""

\* the error a failed handler step throws into the catch block of sendMessage
thrownBy(op) ==
  CASE op.op = "fetchReject" -> "TypeError: Failed to fetch"
    [] op.op = "fetchResolve" -> "API Error: 500"
    [] op.op = "readError" -> "TypeError: network error"

\* the chat request of the pending send failed in this step
requestFailed(op) ==
  \/ op.op = "fetchReject"
  \/ op.op = "fetchResolve" /\ op.arg = "500"
  \/ op.op = "readError"

\* C11: when the chat request fails (fetch rejects, the status is not ok, or
\* reading the stream throws) exactly one assistant message with the generic
\* error text is appended, exactly one error event with the thrown error as
\* detail is dispatched, isLoading is false, the subtree is re-rendered, and
\* the send is over: no coroutine is left and the continuation token is kept.
C11_RequestFailureHandled ==
  [][ requestFailed(lastOp')
        => /\ messages' = Append(messages, Message("assistant", ErrorText))
           /\ events' = Append(events, Event("error", Null, thrownBy(lastOp')))
           /\ ~isLoading'
           /\ dom' = render(attributes', isOpen', messages', FALSE, consentGiven')
           /\ calls' = <<>>
           /\ UNCHANGED <<previousChatId, requests, toggleEvents>> ]_vars

\* a stream that broke, and a send accepted afterwards
C11_Witness ==
  /\ lastOp.op = "sendMessage" /\ Len(requests) = 2 /\ isLoading
  /\ Len(messages) = 3
  /\ messages[2] = Message("assistant", ErrorText)
  /\ events[2] = Event("error", Null, "TypeError: network error")

\* the frames of the response text: the lines of the chunks with every line
\* that a chunk boundary cut put together again
RECURSIVE frames(_)
frames(lines) ==
  IF lines = <<>> THEN <<>>
  ELSE IF Len(lines) >= 2 /\ isHead(lines[1]) /\ lines[2] = tailOf(lines[1])
         THEN <<lines[1] \o lines[2]>> \o frames(SubSeq(lines, 3, Len(lines)))
         ELSE <<lines[1]>> \o frames(Tail(lines))

\* what callVapiAPI returns when the whole text arrives as one chunk
oneChunk(lines) ==
  processLines([fullContent |-> "", chatId |-> Null, dom |-> EmptyDom,
                threw |-> FALSE], frames(lines))

\* C12: the content and the identifier a turn is finalized with are those the
\* same response text gives when it arrives as one chunk, for every division
\* of the text into chunks, a division inside a frame included.
C12_ResultIndependentOfChunking ==
  lastOp.op = "readDone" =>
    /\ Last(messages).content = oneChunk(lastOp.arg).fullContent
    /\ previousChatId = nextChatId(Last(requests).previousChatId,
                                   oneChunk(lastOp.arg).chatId)

\* what render would produce from the state
rendered == render(attributes, isOpen, messages, isLoading, consentGiven)

\* C13: after connectedCallback, and after every operation that changed isOpen,
\* messages, isLoading or consentGiven, the rendered subtree is the one render
\* produces from the current state (consent screen or chat area by the current
\* consentGiven, open class by isOpen).
C13_DomIsRenderOfState ==
  [][ (lastOp'.op = "connectedCallback"
         \/ <<isOpen, messages, isLoading, consentGiven>>'
              # <<isOpen, messages, isLoading, consentGiven>>)
        => dom' = rendered' ]_vars

\* the same with the connections that find a stored grant left aside: every
\* other operation leaves the subtree render produces
C13_ExceptStoredGrant ==
  [][ ((lastOp'.op = "connectedCallback" /\ ~(requireConsentSet /\ priorGrant))
         \/ (lastOp'.op # "connectedCallback"
               /\ <<isOpen, messages, isLoading, consentGiven>>'
                    # <<isOpen, messages, isLoading, consentGiven>>))
        => dom' = rendered' ]_vars

\* C14: messages is append-only: every step of a widget instance (toggle,
\* render, attribute change, consent grant, send, stream chunk, completion,
\* error) leaves the old sequence as a prefix of the new one.
C14_MessagesAppendOnly ==
  [][ /\ Len(messages') >= Len(messages)
      /\ SubSeq(messages', 1, Len(messages)) = messages ]_vars

\* two turns, one failed, around a consent grant, a toggle and an attribute change
C14_Witness ==
  /\ Len(messages) = 4 /\ attrChanges = 1 /\ gaveConsent /\ toggleEvents # <<>>
  /\ messages[2] = Message("assistant", ErrorText)
  /\ messages[4].role = "assistant" /\ messages[4].content = "!"

\* C15: giveConsent always ends with consentGiven true and a render that shows
\* the chat area, also when writing local storage throws; the handler
\* completes and nothing else of the widget changes.
C15_GiveConsentAlwaysGrants ==
  [][ lastOp'.op = "giveConsent"
        => /\ consentGiven'
           /\ dom' = rendered' /\ dom'.surface = "chat"
           /\ UNCHANGED <<messages, isLoading, isOpen, events, calls>> ]_vars

\* the consent button pressed on the consent screen while storage throws
C15_Witness ==
  /\ lastOp.op = "giveConsent" /\ localStorage.throws /\ requireConsentSet
  /\ consentGiven /\ dom.surface = "chat" /\ messages = <<>>

\* C16: on a widget with require-consent, when reading local storage throws at
\* connection the connection completes with consentGiven false, and consentGiven
\* is true after checkConsent only if the value stored under the key is exactly
\* the string "true".
C16_CheckConsentRestrictive ==
  (lastOp.op = "connectedCallback" /\ requireConsentSet)
    => /\ connected
       /\ localStorage.throws => ~consentGiven
       /\ consentGiven => (~localStorage.throws /\ localStorage.value = "true")

\* connected with require-consent while storage throws
C16_Witness ==
  /\ lastOp.op = "connectedCallback" /\ requireConsentSet
  /\ localStorage.throws /\ connected /\ ~consentGiven
  /\ dom.surface = "consent"

\* an earlier instance wrote the flag
grantedEarlier == \E w \in page.writes : w.instance < page.instance

\* C17: consent round-trips through local storage: giveConsent with working
\* storage leaves exactly "true" under the key; a widget with require-consent
\* connected after an earlier instance did so has consentGiven true after
\* connection without giveConsent having run on it; and no step of a widget
\* writes another value or removes the key.
C17_ConsentRoundTrip ==
  [][ /\ (lastOp'.op = "giveConsent" /\ ~localStorage.throws)
          => localStorage'.value = "true"
      /\ (lastOp'.op = "connectedCallback" /\ requireConsentSet' /\ grantedEarlier')
          => (consentGiven' /\ ~gaveConsent')
      /\ (localStorage' # localStorage)
          => (localStorage'.value = "true" /\ lastOp'.op = "giveConsent") ]_vars

\* the second instance, connected with require-consent over a storage that
\* the first instance filled
C17_Witness ==
  /\ lastOp.op = "connectedCallback" /\ page.instance = 2 /\ requireConsentSet
  /\ page.writes = {[instance |-> 1, value |-> "true"]}
  /\ consentGiven /\ ~gaveConsent

\* C18: for every accepted send, when the HTTP request is issued the user
\* message has been appended, isLoading is true and the user message event has
\* been dispatched; the body carries previousChatId exactly when the
\* continuation token is non-null, with the value of the token.
C18_StateBeforeRequest ==
  [][ Len(requests') = Len(requests) + 1
        => /\ lastOp'.op = "sendMessage"
           /\ Last(calls').pc = "fetch"
           /\ Last(calls').issued.messages
                = Append(messages, Message("user", trim(lastOp'.arg)))
           /\ Last(calls').issued.isLoading
           /\ Last(calls').issued.events
                = Append(events, Event("message", "user", trim(lastOp'.arg)))
           /\ Last(requests').input = trim(lastOp'.arg)
           /\ Last(requests').previousChatId = previousChatId ]_vars

\* the second send of a conversation, issued with the token of the first turn
C18_Witness ==
  /\ lastOp.op = "sendMessage" /\ Len(requests) = 2 /\ Len(calls) = 1
  /\ requests[1].previousChatId = Null
  /\ previousChatId = "c2" /\ requests[2].previousChatId = "c2"
  /\ calls[1].issued.isLoading /\ Len(calls[1].issued.messages) = 3

\* the 2 s timer fires while neither the shadow-root injection nor the light-DOM
\* injection has run and the element exposes no shadow root to inject into
fallbackWithoutInjection ==
  /\ loader.fallback = "pending" /\ loader'.fallback = "fired"
  /\ hasCustomizations(config(loader))
  /\ loader.observer = "observing" /\ loader.injected = NothingInjected
  /\ loader.vendor.shadow = "none"

\* C19: whenever a logo or a footer is configured and neither strategy (a) nor
\* strategy (b) has injected when the 2 s fallback fires, the fallback starts
\* strategy (c) (the visibility poll that leads to the deep observer), also for
\* a configuration with a footer and neither logo nor header title.
C19_FallbackStartsObservation ==
  [][ fallbackWithoutInjection
        => (loader'.poll = "running" /\ loader'.pollTimer = "pending") ]_vars

\* the same for the configurations with a logo or a header title
C19_WithLogoOrTitle ==
  [][ (fallbackWithoutInjection
         /\ (config(loader).logo # "" \/ config(loader).headerTitle # ""))
        => (loader'.poll = "running" /\ loader'.pollTimer = "pending") ]_vars

\* nothing the loader started is running and nothing is left to start
allStopped ==
  /\ loader.fallback = "fired"
  /\ loader.observer = "disconnected"
  /\ loader.poll # "running" /\ loader.deep # "observing"

\* C20: every mutation observer and polling interval the loader starts is
\* eventually stopped, whatever the vendor element renders; once they have
\* stopped, nothing more is injected and no error is reported.
C20_ObserversAndPollStop ==
  /\ (loader.observer = "observing") ~> (loader.observer = "disconnected")
  /\ (loader.poll = "running") ~> (loader.poll = "cleared")
  /\ (loader.deep = "observing") ~> (loader.deep = "disconnected")
  /\ [][ allStopped => /\ allStopped'
                        /\ loader'.injected = loader.injected
                        /\ loader'.errors = loader.errors ]_vars

\* first observer, poll and deep observer were all started and have all
\* stopped, and the vendor element never rendered a container
C20_Witness ==
  /\ loader.observer = "disconnected" /\ loader.poll = "cleared"
  /\ loader.deep = "disconnected" /\ loader.deepTimer = "fired"
  /\ loader.observers = 0 /\ loader.timers = 0
  /\ ~loader.vendor.light /\ loader.vendor.shadow = "none"
  /\ loader.injected = NothingInjected /\ loader.errors = 0

\* C21: between event-loop tasks messages alternates user, assistant, user,
\* ... starting with a user message (one user message per accepted send, one
\* assistant message per completed request: the stream result, possibly empty,
\* or the generic error text), and isLoading is true exactly while the last
\* message is a user message.
C21_MessagesAlternate ==
  /\ \A k \in 1..Len(messages) :
       messages[k].role = IF k % 2 = 1 THEN "user" ELSE "assistant"
  /\ isLoading <=> (messages # <<>> /\ messages[Len(messages)].role = "user")
  /\ Len(requests) = (Len(messages) + 1) \div 2

\* a turn with an empty stream result, then a failed turn
C21_Witness ==
  /\ Len(messages) = 4 /\ ~isLoading
  /\ messages[2] = Message("assistant", "")
  /\ messages[4] = Message("assistant", ErrorText)

\* C22: every way a pending request completes (stream end with or without
\* deltas, HTTP error status, fetch rejection, stream error) ends with
\* isLoading false and a render of the chat area whose input is enabled and
\* whose typing indicator is gone; isLoading is never true without a pending
\* request.
C22_LoadingAlwaysCleared ==
  [][ /\ Len(calls') < Len(calls)
          => /\ ~isLoading'
             /\ dom' = rendered'
             /\ dom'.surface = "chat"
             /\ ~dom'.inputDisabled /\ ~dom'.typing
      /\ calls' = <<>> => ~isLoading' ]_vars

\* a stream that ended without any chunk
C22_Witness ==
  /\ lastOp.op = "readDone" /\ lastOp.arg = <<>>
  /\ ~isLoading /\ calls = <<>>
  /\ dom.surface = "chat" /\ ~dom.inputDisabled
  /\ Last(messages) = Message("assistant", "")

\* C23: a turn that ends in an error leaves previousChatId at the value it had
\* when the request was issued, also when frames with an id or deltas were
\* received before the failure; the only message it appends is the generic
\* error text, and neither messages nor the rendered subtree holds the text
\* streamed before the failure.
C23_ErrorTurnKeepsToken ==
  [][ lastOp'.op = "readError"
        => /\ previousChatId' = previousChatId
           /\ previousChatId' = Last(requests).previousChatId
           /\ messages' = Append(messages, Message("assistant", ErrorText))
           /\ Last(messages).role = "user"
           /\ dom'.streaming = Null /\ dom'.transcript = messages' ]_vars

\* the stream broke after an id and deltas had arrived
C23_Witness ==
  /\ lastOp.op = "readError"
  /\ streamId(lastOp.arg) = "c1" /\ concatDeltas(lastOp.arg) = "Hello"
  /\ previousChatId = Null
  /\ messages = <<Message("user", "hi"), Message("assistant", ErrorText)>>

\* C24: after a successful stream of whole lines the continuation token is the
\* id of the first valid frame of the stream that carries a non-empty id (later
\* ids are ignored), and the token the request was issued with when the stream
\* carries none.
C24_FirstIdWins ==
  lastOp.op = "readDone" =>
    previousChatId = IF streamId(lastOp.arg) # Null
                       THEN streamId(lastOp.arg)
                       ELSE Last(requests).previousChatId

\* a stream with two different ids
C24_Witness ==
  /\ lastOp.op = "readDone" /\ lastOp.arg = <<L_bad, L_id2, L_id1>>
  /\ previousChatId = "c2"

\* a second turn without id after a turn that carried one
C24_KeepsToken ==
  /\ lastOp.op = "readDone" /\ lastOp.arg = <<L_Hel>>
  /\ Len(requests) = 2 /\ previousChatId = "c1"

\* C25: within one widget instance, once consentGiven is true it never becomes
\* false again, under any sequence of giveConsent, toggles, sends, attribute
\* changes and disconnect/reconnect, also when storage reads or writes fail.
C25_ConsentNeverReverts ==
  [][ consentGiven => consentGiven' ]_vars

\* the same for every step but a connection
C25_ExceptReconnect ==
  [][ (consentGiven /\ lastOp'.op # "connectedCallback") => consentGiven' ]_vars

\* C26: every message event carries the role and the content of the entry
\* appended to messages in the same task; a successful turn dispatches two
\* message events, user then assistant, and a failed turn the user message
\* event, then one error event and no assistant message event.
C26_EventsFollowMessages ==
  /\ Len(events) = Len(messages)
  /\ \A k \in 1..Len(events) :
       /\ events[k].type \in {"message", "error"}
       /\ events[k].type = "message"
            => /\ events[k].role = messages[k].role
               /\ events[k].content = messages[k].content
               /\ events[k].role = (IF k % 2 = 1 THEN "user" ELSE "assistant")
       /\ events[k].type = "error"
            => /\ k % 2 = 0
               /\ messages[k] = Message("assistant", ErrorText)
       /\ (k % 2 = 0 /\ messages[k].content # ErrorText)
            => events[k].type = "message"
       /\ (k % 2 = 0 /\ messages[k].content = ErrorText)
            => events[k].type = "error"

\* a successful turn, then a failed one
C26_Witness ==
  /\ Len(events) = 4
  /\ events[1] = Event("message", "user", "hi")
  /\ events[2] = Event("message", "assistant", "!")
  /\ events[3] = Event("message", "user", "hi")
  /\ events[4].type = "error"

\* a chunk that holds a valid frame with a non-empty delta
hasDelta(chunk) ==
  \E k \in 1..Len(chunk) : wellFormed(chunk[k]) /\ deltaField(chunk[k]) # ""

\* C27: right after a chunk with a non-empty delta the streaming element shows
\* the concatenation of all deltas received so far in the turn and the typing
\* indicator is gone; after the turn completed the subtree holds no streaming
\* element and its transcript is messages, whose last entry is the assistant
\* message of the turn.
C27_StreamingElementShowsBuffer ==
  /\ (lastOp.op = "readChunk" /\ hasDelta(lastOp.arg))
       => /\ dom.streaming = concatDeltas(calls[1].received)
          /\ dom.streaming = calls[1].fullContent
          /\ ~dom.typing
          /\ dom.transcript = messages
  /\ lastOp.op = "readDone"
       => /\ dom.streaming = Null /\ ~dom.typing
          /\ dom.transcript = messages
          /\ Last(messages) = Message("assistant", concatDeltas(lastOp.arg))
          /\ messages[Len(messages) - 1].role = "user"

\* the second delta of a turn, in a chunk of its own
C27_Witness ==
  /\ lastOp.op = "readChunk" /\ lastOp.arg = <<L_lo>>
  /\ calls[1].received = <<L_Hel, L_bad, L_lo>>
  /\ dom.streaming = "Hello" /\ ~dom.typing

\* a response is streaming and text has been shown
streamingText ==
  IF calls # <<>> /\ calls[1].pc = "read" THEN calls[1].fullContent ELSE ""

\* C28: a full re-render while a response is streaming (toggleChat, giveConsent
\* or an attribute change between two deltas) does not lose the text streamed
\* so far: after it the in-progress assistant text shown still equals the
\* running buffer.
C28_RenderKeepsStreamedText ==
  [][ (lastOp'.op \in {"toggleChat", "giveConsent", "attributeChangedCallback"}
         /\ streamingText # "")
        => dom'.streaming = streamingText ]_vars

\* the same for the steps that do not render
C28_ChunksKeepStreamedText ==
  [][ (lastOp'.op = "readChunk" /\ streamingText' # "")
        => dom'.streaming = streamingText' ]_vars

\* C29: toggleChat changes only isOpen (and what is rendered from it):
\* messages, isLoading, previousChatId, consentGiven and the pending request
\* are unchanged by any open or close, and a request that completes while the
\* window is closed appends its assistant message.
C29_ToggleChangesOnlyIsOpen ==
  [][ /\ lastOp'.op = "toggleChat"
          => /\ UNCHANGED <<messages, isLoading, previousChatId, consentGiven,
                            calls, requests, events, localStorage>>
             /\ dom' = rendered' /\ dom'.open = isOpen'
      /\ (lastOp'.op = "readDone" /\ ~isOpen)
          => /\ messages' = Append(messages, Message("assistant", calls[1].fullContent))
             /\ ~isOpen' /\ ~isLoading' ]_vars

\* the window was opened and closed, and the request completed while closed
C29_Witness ==
  /\ lastOp.op = "readDone" /\ ~isOpen
  /\ toggleEvents = <<"chat-open", "chat-close">>
  /\ messages = <<Message("user", "hi"), Message("assistant", "!")>>

\* number of .vapi-custom-footer / .vapi-custom-logo elements inside vapi-widget
footerCount(l) ==
  l.injected.shadowFooter + l.injected.widgetFooter + l.injected.containerFooter
logoCount(l) ==
  l.injected.shadowLogo + l.injected.lightLogo

\* C30: across the injection paths of the loader (first observer, 2 s fallback,
\* deep observer) the vendor element holds at most one injected footer and at
\* most one injected logo at any time, in whatever order the paths fire.
C30_AtMostOneFooterAndLogo ==
  footerCount(loader) <= 1 /\ logoCount(loader) <= 1

\* the same for the footer alone, and for the logo alone
C30_AtMostOneFooter == footerCount(loader) <= 1
C30_AtMostOneLogo == logoCount(loader) <= 1

\* the same with no shadow root ever attached: the footer appended to the
\* element by the first observer and the one the deep observer puts inside the
\* container
C30_LightOnlyAtMostOneFooter ==
  loader.vendor.shadow = "none" => footerCount(loader) <= 1

\* C31: injectFooter and injectLogoIntoHeader are idempotent per target: after
\* any number of calls on the same container or header, that target holds
\* exactly one injected footer or logo when the option is configured, and the
\* call changes nothing when the option is not configured.
C31_InjectIdempotent ==
  [][ /\ lastOp'.op = "injectFooter"
          => /\ loader'.injected.containerFooter
                   = IF config(loader).footer = ""
                       THEN loader.injected.containerFooter ELSE 1
             /\ loader' = [loader EXCEPT !.injected.containerFooter =
                                            loader'.injected.containerFooter]
      /\ lastOp'.op = "injectLogoIntoHeader"
          => /\ loader'.injected.lightLogo
                   = IF config(loader).logo = ""
                       THEN loader.injected.lightLogo ELSE 1
             /\ loader' = [loader EXCEPT !.injected.lightLogo =
                                            loader'.injected.lightLogo] ]_vars

\* the footer option unset: no call ever puts a footer into the container
C31_NoFooterWithoutOption ==
  config(loader).footer = "" => loader.injected.containerFooter = 0

C31_Witness ==
  /\ lastOp.op = "injectFooter" /\ lastOp.arg = MaxInjectCalls
  /\ config(loader).footer # "" /\ loader.injected.containerFooter = 1

\* in the loader's own runs: the first observer and the 2 s fallback may both
\* call the functions on the same shadow-root header and container, and no
\* header or container ever holds more than one injected element
C31_LoaderTargetsHoldAtMostOne ==
  /\ loader.injected.shadowLogo <= 1 /\ loader.injected.shadowFooter <= 1
  /\ loader.injected.lightLogo <= 1 /\ loader.injected.containerFooter <= 1
  /\ loader.injected.widgetFooter <= 1

\* both the first observer and the fallback have injected into the shadow root
C31_LoaderCalledTwice ==
  loader.injected.shadowStyles = 2 /\ loader.injected.shadowFooter = 1

\* no observer, interval or timer of the injection has been set
injectionNotStarted(l) ==
  /\ l.observer = "none" /\ l.fallback = "none"
  /\ l.poll = "none" /\ l.pollTimer = "none"
  /\ l.deep = "none" /\ l.deepTimer = "none"
  /\ l.observers = 0 /\ l.injected = NothingInjected

\* C32: the vapi-widget element exists only once the vendor script has loaded
\* and the 100 ms wait is over, and injection is started only with the element
\* created; after a failed script load the error is logged once, there is no
\* vapi-widget element and no observer or timer.
C32_WidgetOnlyAfterScriptLoad ==
  /\ loader.pc # "initialized"
       => loader.widgets = 0 /\ injectionNotStarted(loader)
  /\ ~injectionNotStarted(loader) => loader.widgets = 1
  /\ loader.pc = "failed"
       => /\ loader.errors = 1 /\ loader.widgets = 0
          /\ loader.observers = 0 /\ loader.timers = 0
          /\ injectionNotStarted(loader)

\* the steps in order: the wait starts from a pending script load, the element
\* is created by the end of the wait, injection starts in that step or later,
\* and nothing follows a failed load
C32_CreationFollowsLoad ==
  [][ /\ loader'.pc = "delay" => loader.pc = "loading"
      /\ loader'.widgets # loader.widgets
           => loader.pc = "delay" /\ loader'.widgets = 1
      /\ (injectionNotStarted(loader) /\ ~injectionNotStarted(loader'))
           => loader'.widgets = 1
      /\ loader.pc = "failed" => loader' = loader ]_vars

C32_Witness ==
  /\ loader.pc = "failed" /\ loader.scripts = 1 /\ loader.errors = 1
  /\ config(loader).logo # "" /\ config(loader).footer # ""

\* the successful order: script loaded, element created, injection started
C32_WitnessCreated ==
  /\ loader.pc = "initialized" /\ loader.widgets = 1
  /\ loader.observer = "observing" /\ loader.fallback = "pending"

====
